---------------------------- MODULE Spec2Model ----------------------------
(***************************************************************************)
(* A model of src/main.py: the DQN training loop for CartPole.             *)
(*                                                                         *)
(*   Agent          q_net, t_net, epsilon (gamma is the constant 0.9)      *)
(*   ReplayBuffer   buffer, buffer_size, end_factor, and the attribute     *)
(*                  replay_buffer that ReplayBuffer.update() assigns       *)
(*   train()        the epoch loop, one action per statement               *)
(*   run_episode,   statement by statement in SpecEpisode; inside the      *)
(*   evaluate       epoch loop an evaluation is one step                   *)
(*                                                                         *)
(* Real numbers (epsilon, rewards, action values, random draws) are fixed  *)
(* point with eight decimal digits: Unit stands for 1.0.  A multiplication *)
(* by the literal 0.9 is Times09.                                          *)
(*                                                                         *)
(* The external collaborators are abstracted: a network is its weights (a  *)
(* value of Weights) and Forward gives its output on an observation; a fit *)
(* moves the online weights to any value of Weights; the environment       *)
(* answers reset and step with any value its kind allows; every random     *)
(* draw is an input of the action that makes it.                           *)
(***************************************************************************)
EXTENDS Integers, Sequences, FiniteSets, TLC

VARIABLES
    q_net,          \* Agent.q_net: the online network's weights
    t_net,          \* Agent.t_net: the target network's weights
    epsilon,        \* Agent.epsilon
    synced,         \* history: the online weights at the latest Agent.update()
    eps_calls,      \* history: the number of update_epsilon() calls so far
    buffer,         \* ReplayBuffer.buffer
    replay_buffer,  \* ReplayBuffer.replay_buffer ("unset" until update() sets it)
    buffer_size,    \* ReplayBuffer.buffer_size
    end_factor,     \* ReplayBuffer.end_factor
    fpc,            \* fill_buffer's position: "idle", "outer", "inner"
    state,          \* fill_buffer's local `state`
    fill_from,      \* history: the buffer length when fill_buffer was called
    env_kind,       \* which environment the run is given
    env_resets,     \* history: env.reset() calls of the current fill_buffer
    env_steps,      \* history: env.step() calls of the current fill_buffer
    pc,             \* train()'s position
    epoch,          \* train()'s loop variable
    num_epochs,     \* train()'s argument
    batch_size,     \* sample_buffer's argument
    batch_num,      \* sample_buffer's loop variable (the generator's position)
    batch,          \* the batch handed to Agent.train
    log,            \* the rows CustomCSVWriter.update appended
    gifs,           \* the names of the files save_gif wrote, in order
    eval_result,    \* train()'s local eval_result
    hist,           \* history: the operations of the current epoch, in order
    trained,        \* history: the online weights when the latest for over
                    \* the batches ended (the constructed weights before);
                    \* -1 where no train() is running
    rpc,            \* run_episode's position: "idle", "loop", "return"
    ep_state,       \* run_episode's local `state`
    total_reward,   \* run_episode's local `total_reward`
    frames,         \* run_episode's local `frames`, as its length
    return_frames,  \* run_episode's argument
    ep_steps,       \* history: env.step() calls of the current run_episode
    evpc,           \* evaluate's position: "idle", "loop"
    ev_count,       \* evaluate's loop counter
    ev_total,       \* evaluate's local `total_reward`, in hundreds
    ev_steps,       \* history: env.step() calls of the current evaluate
    call            \* history: the latest call, its arguments and its results

agentVars == <<q_net, t_net, epsilon, synced, eps_calls>>
bufVars   == <<buffer, replay_buffer, buffer_size, end_factor>>
fillVars  == <<fpc, state, fill_from>>
envVars   == <<env_kind, env_resets, env_steps>>
loopVars  == <<pc, epoch, num_epochs, batch_size, batch_num, log, gifs,
               eval_result, hist>>
epVars    == <<rpc, ep_state, total_reward, frames, return_frames, ep_steps,
               evpc, ev_count, ev_total, ev_steps>>
vars      == <<agentVars, bufVars, fillVars, envVars, loopVars, trained,
               epVars, batch, call>>

---------------------------------------------------------------------------
(* Numbers and domains *)

\* 1.0 in fixed point (Agent.epsilon = 1).
Unit == 100000000

\* 0.05 in fixed point: the floor of epsilon.
EpsFloor == 5000000

\* x * 0.9, that is (x * 9) \div 10, computed without leaving 32 bits.
Times09(x) == (x \div 10) * 9 + ((x % 10) * 9) \div 10

\* np.max of a list of two numbers
Max2(a, b) == IF a >= b THEN a ELSE b

\* The largest weight value of the abstraction: Weights is 0..MaxWeight.
MaxWeight == 1
Weights == 0..MaxWeight

\* Observations, abstracted to two classes.
States == {0, 1}

\* The two actions of the task.
Actions == {0, 1}

\* Rewards an environment step may give.
Rewards == {Unit}

\* Values np.random.random() may return: numbers of [0, 1).
Draws == {0, EpsFloor - 1, Unit \div 2, Unit - 1}

---------------------------------------------------------------------------
(* Agent *)

\* The network with weights w applied to one observation: the two action
\* values.  A fixed function of (w, s): with weights 0 the second action is
\* best on observation 0 and the two tie on observation 1; with weights 1 the
\* first is best on observation 0 and the second on observation 1.
Forward(w, s) ==
    << ((2 * w + s - 2 * w * s) % 3) * Unit, ((1 + w * s) % 3) * Unit >>

\* numpy's argmax of a vector: the first index (from 0) of the largest entry.
argmax(v) ==
    CHOOSE i \in 0..(Len(v) - 1) :
        /\ \A j \in 0..(Len(v) - 1) : v[j + 1] <= v[i + 1]
        /\ \A j \in 0..(i - 1) : v[j + 1] < v[i + 1]

\* Agent.policy with the train flag ignored.
policy_ignores_train(q, eps, s, train, draw, randint) ==
    LET q_est == Forward(q, s)
    IN  IF draw < eps THEN randint ELSE argmax(q_est)

\* Agent.policy(state, train): draw is np.random.random(), randint is
\* np.random.randint(0, 2).
policy(q, eps, s, train, draw, randint) ==
    LET q_est == Forward(q, s)
    IN  IF draw < eps /\ train THEN randint ELSE argmax(q_est)

\* The loop of Agent.train over the batch, from row i on: row i's entry at the
\* taken action becomes the TD target.
RECURSIVE TruthLoop_no_done(_, _, _)
TruthLoop_no_done(truth, b, i) ==
    IF i > Len(b) THEN truth
    ELSE LET a == b[i].action + 1
             v == b[i].reward + Times09(truth[i][a])
         IN  TruthLoop_no_done([truth EXCEPT ![i][a] = v], b, i + 1)

RECURSIVE TruthLoop(_, _, _)
TruthLoop(truth, b, i) ==
    IF i > Len(b) THEN truth
    ELSE LET a == b[i].action + 1
             v == IF b[i].done THEN b[i].reward
                  ELSE b[i].reward + Times09(truth[i][a])
         IN  TruthLoop([truth EXCEPT ![i][a] = v], b, i + 1)

\* Agent.train's fitting targets for batch b with target weights t.
Truth(t, b) ==
    TruthLoop([i \in 1..Len(b) |-> Forward(t, b[i].next_state)], b, 1)

\* Agent.train(batch) with a target network that shares the online network's
\* weights.
AgentTrain_aliased(b) ==
    /\ Len(b) > 0
    /\ \E w \in Weights : q_net' = w /\ t_net' = w /\ synced' = w
    /\ call' = [op |-> "train", batch |-> b,
                fit_x |-> [i \in 1..Len(b) |-> b[i].state],
                fit_y |-> Truth(t_net, b),
                fit_epochs |-> 1]
    /\ UNCHANGED <<epsilon, eps_calls>>

\* Agent.train(batch): the targets come from t_net, the online network is
\* fitted for one pass and ends with any weights.
AgentTrain(b) ==
    /\ Len(b) > 0
    /\ \E w \in Weights : q_net' = w
    /\ call' = [op |-> "train", batch |-> b,
                fit_x |-> [i \in 1..Len(b) |-> b[i].state],
                fit_y |-> Truth(t_net, b),
                fit_epochs |-> 1]
    /\ UNCHANGED <<t_net, epsilon, synced, eps_calls>>

\* Agent.update() without the copy.
AgentUpdate_stale ==
    /\ t_net' = t_net
    /\ synced' = q_net
    /\ call' = [op |-> "update"]
    /\ UNCHANGED <<q_net, epsilon, eps_calls>>

\* Agent.update(): t_net.set_weights(q_net.get_weights()).
AgentUpdate ==
    /\ t_net' = q_net
    /\ synced' = q_net
    /\ call' = [op |-> "update"]
    /\ UNCHANGED <<q_net, epsilon, eps_calls>>

\* update_epsilon() without the floor.
NextEpsilon_no_floor(eps) ==
    IF eps > EpsFloor THEN Times09(eps) ELSE eps

\* update_epsilon() decaying by 0.8.
NextEpsilon_wrong_rate(eps) ==
    IF eps > EpsFloor THEN Max2((eps * 8) \div 10, EpsFloor) ELSE eps

\* The value update_epsilon() leaves in epsilon.
NextEpsilon(eps) ==
    IF eps > EpsFloor THEN Max2(Times09(eps), EpsFloor) ELSE eps

\* Agent.update_epsilon().
AgentUpdateEpsilon ==
    /\ epsilon' = NextEpsilon(epsilon)
    /\ eps_calls' = eps_calls + 1
    /\ call' = [op |-> "update_epsilon", before |-> epsilon]
    /\ UNCHANGED <<q_net, t_net, synced>>

\* A call of Agent.policy from outside the loop, with any arguments.
AgentPolicy ==
    /\ \E s \in States, tr \in BOOLEAN, d \in Draws, r \in Actions :
          call' = [op |-> "policy", state |-> s, train |-> tr, draw |-> d,
                   randint |-> r,
                   action |-> policy(q_net, epsilon, s, tr, d, r)]
    /\ UNCHANGED agentVars

---------------------------------------------------------------------------
(* Environment: the gym contract, reset() and step(action) *)

\* The environments a run may be given.  "free" answers anything; "stub"
\* ends every episode at its first step; "endless" never ends an episode.
EnvKinds == {"free", "stub", "endless"}

\* The observations env.reset() may return: an episode starts in class 0
\* (CartPole starts near upright).
EnvReset(kind) == {0}

\* What env.step(action) may return from observation s.
EnvStep(kind, s, a) ==
    CASE kind = "stub" ->
            {[next_state |-> 0, reward |-> Unit,
              terminated |-> TRUE, truncated |-> FALSE]}
      [] kind = "endless" ->
            {[next_state |-> n, reward |-> r,
              terminated |-> FALSE, truncated |-> FALSE] :
                n \in States, r \in Rewards}
      [] OTHER ->
            {[next_state |-> n, reward |-> r,
              terminated |-> te, truncated |-> tr] :
                n \in States, r \in Rewards,
                te \in BOOLEAN, tr \in BOOLEAN}

---------------------------------------------------------------------------
(* ReplayBuffer *)

\* The largest buffer_size and the largest batch_size of the model; the
\* largest buffer_size of a train() run on the one-step environment, whose
\* buffers are few; the largest buffer_size of a run of fill_buffer alone on
\* that environment.
MaxBufferSize == 2
MaxBatch == 2
MaxStubSize == 3
MaxFillSize == 10

\* The values of buffer_size a run on an environment of this kind is given.
Sizes(kind) == 1..(IF kind = "stub" THEN MaxStubSize ELSE MaxBufferSize)

\* The exit test of fill_buffer's inner loop without the capacity test.
FillBreak_no_capacity(done, draw, ef, len, size) ==
    done \/ draw < ef

\* The exit test of fill_buffer's inner loop, after a stored step.
FillBreak(done, draw, ef, len, size) ==
    done \/ draw < ef \/ len >= size

\* done = terminated or truncated
Done_and(terminated, truncated) == terminated /\ truncated

Done(terminated, truncated) == terminated \/ truncated

\* fill_buffer's outer loop test with <= for <.
FillMore_le(len, size) == len <= size

\* fill_buffer's outer loop test: while len(self.buffer) < self.buffer_size
FillMore(len, size) == len < size

\* A call of fill_buffer(env, agent) that starts from an emptied buffer.
FillCall_clears ==
    /\ fpc = "idle"
    /\ fpc' = "outer"
    /\ fill_from' = Len(buffer)
    /\ env_resets' = 0
    /\ env_steps' = 0
    /\ call' = [op |-> "fill_buffer"]
    /\ buffer' = << >>
    /\ UNCHANGED <<state, env_kind, replay_buffer, buffer_size, end_factor,
                   agentVars>>

\* A call of fill_buffer(env, agent).
FillCall ==
    /\ fpc = "idle"
    /\ fpc' = "outer"
    /\ fill_from' = Len(buffer)
    /\ env_resets' = 0
    /\ env_steps' = 0
    /\ call' = [op |-> "fill_buffer"]
    /\ UNCHANGED <<state, env_kind, bufVars, agentVars>>

\* fill_buffer's outer loop test: a new episode (env.reset(), done = False),
\* or the return.
FillOuter ==
    /\ fpc = "outer"
    /\ IF FillMore(Len(buffer), buffer_size)
       THEN /\ \E s \in EnvReset(env_kind) : state' = s
            /\ env_resets' = env_resets + 1
            /\ fpc' = "inner"
            /\ call' = [op |-> "reset", obs |-> state']
       ELSE /\ fpc' = "idle"
            /\ call' = [op |-> "fill_buffer_return"]
            /\ UNCHANGED <<state, env_resets>>
    /\ UNCHANGED <<fill_from, env_kind, env_steps, bufVars, agentVars>>

\* One pass of fill_buffer's inner loop that drops the state store_experience
\* returns.
FillInner_stale_state ==
    /\ fpc = "inner"
    /\ \E d \in Draws, r \in Actions, d2 \in Draws :
       LET action == policy(q_net, epsilon, state, TRUE, d, r)
       IN  \E o \in EnvStep(env_kind, state, action) :
           LET done == Done(o.terminated, o.truncated)
               tr   == [state |-> state, action |-> action,
                        reward |-> o.reward, next_state |-> o.next_state,
                        done |-> done, epoch |-> epoch]
               brk  == FillBreak(done, d2, end_factor, Len(buffer) + 1,
                                 buffer_size)
           IN  /\ buffer' = Append(buffer, tr)
               /\ state' = state
               /\ fpc' = IF brk THEN "outer" ELSE "inner"
               /\ call' = [op |-> "store_experience", stored |-> tr,
                           from |-> state, broke |-> brk, drew |-> d2]
    /\ env_steps' = env_steps + 1
    /\ UNCHANGED <<fill_from, env_kind, env_resets, replay_buffer,
                   buffer_size, end_factor, agentVars>>

\* One pass of fill_buffer's inner loop: store_experience(env, agent, state),
\* then the exit test.
FillInner ==
    /\ fpc = "inner"
    /\ \E d \in Draws, r \in Actions, d2 \in Draws :
       LET action == policy(q_net, epsilon, state, TRUE, d, r)
       IN  \E o \in EnvStep(env_kind, state, action) :
           LET done == Done(o.terminated, o.truncated)
               tr   == [state |-> state, action |-> action,
                        reward |-> o.reward, next_state |-> o.next_state,
                        done |-> done, epoch |-> epoch]
               brk  == FillBreak(done, d2, end_factor, Len(buffer) + 1,
                                 buffer_size)
           IN  /\ buffer' = Append(buffer, tr)
               /\ state' = o.next_state
               /\ fpc' = IF brk THEN "outer" ELSE "inner"
               /\ call' = [op |-> "store_experience", stored |-> tr,
                           from |-> state, broke |-> brk, drew |-> d2]
    /\ env_steps' = env_steps + 1
    /\ UNCHANGED <<fill_from, env_kind, env_resets, replay_buffer,
                   buffer_size, end_factor, agentVars>>

\* The sequences random.sample(population of n, k) may pick, as positions:
\* drawn with replacement.
Samples_with_replacement(n, k) == [1..k -> 1..n]

\* The sequences random.sample(population of n, k) may pick, as positions:
\* k distinct positions in any order.
Samples(n, k) ==
    {p \in [1..k -> 1..n] : \A i, j \in 1..k : i # j => p[i] # p[j]}

\* A call of sample_buffer(batch_size): the generator is created.
SampleCall(k) ==
    /\ batch_num = -1
    /\ batch_size' = k
    /\ batch_num' = 0
    /\ call' = [op |-> "sample_buffer"]
    /\ UNCHANGED <<batch, bufVars>>

\* The generator of sample_buffer with a range that stops before a batch that
\* would pass buffer_size.
SampleNext_whole_batches ==
    /\ batch_num >= 0
    /\ IF batch_num + batch_size > buffer_size
       THEN /\ batch_num' = -1
            /\ call' = [op |-> "sample_exhausted"]
            /\ batch' = << >>
       ELSE IF batch_size > Len(buffer)
       THEN /\ batch_num' = -1
            /\ call' = [op |-> "sample_error"]
            /\ batch' = << >>
       ELSE /\ \E p \in Samples(Len(buffer), batch_size) :
                /\ batch' = [i \in 1..batch_size |-> buffer[p[i]]]
                /\ call' = [op |-> "sample", positions |-> p]
            /\ batch_num' = batch_num + batch_size
    /\ UNCHANGED <<batch_size, bufVars>>

\* The generator of sample_buffer is asked for its next batch: it yields one,
\* or is exhausted, or random.sample raises ValueError (a sample larger than
\* the buffer).  The for over the generator is then over and its variable
\* `batch` is read no more: the model forgets it.
SampleNext ==
    /\ batch_num >= 0
    /\ IF batch_num >= buffer_size
       THEN /\ batch_num' = -1
            /\ call' = [op |-> "sample_exhausted"]
            /\ batch' = << >>
       ELSE IF batch_size > Len(buffer)
       THEN /\ batch_num' = -1
            /\ call' = [op |-> "sample_error"]
            /\ batch' = << >>
       ELSE /\ \E p \in Samples(Len(buffer), batch_size) :
                /\ batch' = [i \in 1..batch_size |-> buffer[p[i]]]
                /\ call' = [op |-> "sample", positions |-> p]
            /\ batch_num' = batch_num + batch_size
    /\ UNCHANGED <<batch_size, bufVars>>

\* ReplayBuffer.update() that sets end_factor to 0.9.
BufferUpdate_assigns ==
    /\ replay_buffer' = << >>
    /\ end_factor' = Times09(Unit)
    /\ call' = [op |-> "rb_update", before |-> end_factor]
    /\ UNCHANGED <<buffer, buffer_size>>

\* ReplayBuffer.update().
BufferUpdate ==
    /\ replay_buffer' = << >>
    /\ end_factor' = Times09(end_factor)
    /\ call' = [op |-> "rb_update", before |-> end_factor]
    /\ UNCHANGED <<buffer, buffer_size>>

---------------------------------------------------------------------------
(* train(num_epochs): the epoch loop *)

\* The largest num_epochs of the model.
MaxEpochs == 3

\* The values Agent.evaluate(env) may return: a mean reward per episode.
EvalResults == {Unit}

\* Agent.evaluate(env): 100 greedy episodes; the agent is left as it was.
AgentEvaluate ==
    /\ \E r \in EvalResults : call' = [op |-> "evaluate", result |-> r]
    /\ UNCHANGED agentVars

\* for epoch in range(num_epochs): the next iteration, or the end.
LoopFor ==
    /\ pc = "for"
    /\ UNCHANGED <<trained, epVars>>
    /\ pc' = IF epoch < num_epochs THEN "fill" ELSE "done"
    /\ call' = [op |-> "for"]
    /\ UNCHANGED <<epoch, num_epochs, batch_size, batch_num, log, gifs,
                   eval_result, hist, batch, agentVars, bufVars, fillVars,
                   envVars>>

\* replay_buffer.fill_buffer(env, agent): the call.
LoopFillCall ==
    /\ pc = "fill"
    /\ UNCHANGED <<trained, epVars>>
    /\ FillCall
    /\ pc' = "filling"
    /\ UNCHANGED <<epoch, num_epochs, batch_size, batch_num, log, gifs,
                   eval_result, hist, batch>>

\* fill_buffer's outer loop inside train(); its return moves train() on.
LoopFillOuter ==
    /\ pc = "filling"
    /\ UNCHANGED <<trained, epVars>>
    /\ FillOuter
    /\ pc' = IF fpc' = "idle" THEN "sample_call" ELSE pc
    /\ hist' = IF fpc' = "idle" THEN Append(hist, "fill") ELSE hist
    /\ UNCHANGED <<epoch, num_epochs, batch_size, batch_num, log, gifs,
                   eval_result, batch>>

\* fill_buffer's inner loop inside train().
LoopFillInner ==
    /\ pc = "filling"
    /\ UNCHANGED <<trained, epVars>>
    /\ FillInner
    /\ UNCHANGED <<loopVars, batch>>

\* for batch in replay_buffer.sample_buffer(): the generator is created.
LoopSampleCall ==
    /\ pc = "sample_call"
    /\ UNCHANGED <<trained, epVars>>
    /\ SampleCall(batch_size)
    /\ pc' = "sample_next"
    /\ UNCHANGED <<epoch, num_epochs, log, gifs, eval_result, hist,
                   agentVars, fillVars, envVars>>

\* for batch in replay_buffer.sample_buffer(): the next batch, or the end of
\* the for, or the ValueError that ends train().
LoopSampleNext ==
    /\ pc = "sample_next"
    /\ SampleNext
    /\ trained' = IF call'.op = "sample_exhausted" THEN q_net ELSE trained
    /\ UNCHANGED epVars
    /\ pc' = CASE call'.op = "sample" -> "train"
               [] call'.op = "sample_exhausted" -> "evaluate"
               [] OTHER -> "error"
    /\ UNCHANGED <<epoch, num_epochs, log, gifs, eval_result, hist,
                   agentVars, fillVars, envVars>>

\* agent.train(batch)
LoopTrain ==
    /\ pc = "train"
    /\ UNCHANGED <<trained, epVars>>
    /\ AgentTrain(batch)
    /\ pc' = "sample_next"
    /\ hist' = Append(hist, "train")
    /\ UNCHANGED <<epoch, num_epochs, batch_size, batch_num, log, gifs,
                   eval_result, batch, bufVars, fillVars, envVars>>

\* eval_result = agent.evaluate(env)
LoopEvaluate ==
    /\ pc = "evaluate"
    /\ UNCHANGED <<trained, epVars>>
    /\ AgentEvaluate
    /\ eval_result' = call'.result
    /\ pc' = "log"
    /\ hist' = Append(hist, "evaluate")
    /\ UNCHANGED <<epoch, num_epochs, batch_size, batch_num, log, gifs,
                   batch, bufVars, fillVars, envVars>>

\* log.update with the printed, 1-based epoch number.
LoopLog_one_based ==
    /\ pc = "log"
    /\ UNCHANGED <<trained, epVars>>
    /\ log' = Append(log, <<epoch + 1, eval_result>>)
    /\ pc' = "rb_update"
    /\ hist' = Append(hist, "log")
    /\ call' = [op |-> "log"]
    /\ UNCHANGED <<epoch, num_epochs, batch_size, batch_num, gifs,
                   eval_result, batch, agentVars, bufVars, fillVars, envVars>>

\* log.update(epoch, eval_result): CustomCSVWriter.update appends one row.
LoopLog ==
    /\ pc = "log"
    /\ UNCHANGED <<trained, epVars>>
    /\ log' = Append(log, <<epoch, eval_result>>)
    /\ pc' = "rb_update"
    /\ hist' = Append(hist, "log")
    /\ call' = [op |-> "log"]
    /\ UNCHANGED <<epoch, num_epochs, batch_size, batch_num, gifs,
                   eval_result, batch, agentVars, bufVars, fillVars, envVars>>

\* replay_buffer.update()
LoopBufferUpdate ==
    /\ pc = "rb_update"
    /\ UNCHANGED <<trained, epVars>>
    /\ BufferUpdate
    /\ pc' = "update_epsilon"
    /\ hist' = Append(hist, "rb_update")
    /\ UNCHANGED <<epoch, num_epochs, batch_size, batch_num, log, gifs,
                   eval_result, batch, agentVars, fillVars, envVars>>

\* agent.update_epsilon()
LoopUpdateEpsilon ==
    /\ pc = "update_epsilon"
    /\ UNCHANGED <<trained, epVars>>
    /\ AgentUpdateEpsilon
    /\ pc' = "agent_update"
    /\ hist' = Append(hist, "update_epsilon")
    /\ UNCHANGED <<epoch, num_epochs, batch_size, batch_num, log, gifs,
                   eval_result, batch, bufVars, fillVars, envVars>>

\* agent.update()
LoopAgentUpdate ==
    /\ pc = "agent_update"
    /\ UNCHANGED <<trained, epVars>>
    /\ AgentUpdate
    /\ pc' = "gif"
    /\ hist' = Append(hist, "agent_update")
    /\ UNCHANGED <<epoch, num_epochs, batch_size, batch_num, log, gifs,
                   eval_result, batch, bufVars, fillVars, envVars>>

\* The decimal digits of a natural number, most significant first.
RECURSIVE Digits(_)
Digits(n) == IF n < 10 THEN <<n>> ELSE Append(Digits(n \div 10), n % 10)

\* The format spec 03: zeros on the left up to three characters.
Pad03(ds) ==
    IF Len(ds) >= 3 THEN ds ELSE [i \in 1..(3 - Len(ds)) |-> 0] \o ds

\* f'episode{episode:03}.gif'
GifName(episode) ==
    [prefix |-> "episode", digits |-> Pad03(Digits(episode)),
     suffix |-> ".gif"]

\* The test before save_gif, on the 0-based index being even.
GifDue_zero_based(e) == e % 2 = 0

\* if (epoch + 1) % 2 == 0
GifDue(e) == (e + 1) % 2 = 0

\* if (epoch + 1) % 2 == 0: agent.save_gif(env, epoch), which runs one episode
\* for its frames and writes them to the file named after the epoch; then
\* the next epoch.
LoopGif ==
    /\ pc = "gif"
    /\ UNCHANGED <<trained, epVars>>
    /\ gifs' = IF GifDue(epoch) THEN Append(gifs, GifName(epoch)) ELSE gifs
    /\ epoch' = epoch + 1
    /\ pc' = "for"
    /\ hist' = << >>
    /\ call' = [op |-> "gif", saved |-> GifDue(epoch)]
    /\ UNCHANGED <<num_epochs, batch_size, batch_num, log, eval_result,
                   batch, agentVars, bufVars, fillVars, envVars>>

\* Agent() and ReplayBuffer(), as their constructors leave them.
InitObjects ==
    /\ q_net \in Weights
    /\ t_net = q_net
    /\ synced = q_net
    /\ epsilon = Unit
    /\ eps_calls = 0
    /\ buffer = << >>
    /\ replay_buffer = "unset"
    /\ end_factor = 0
    /\ fpc = "idle"
    /\ state = 0
    /\ fill_from = 0
    /\ env_resets = 0
    /\ env_steps = 0
    /\ batch_num = -1
    /\ batch = << >>
    /\ log = << >>
    /\ gifs = << >>
    /\ eval_result = 0
    /\ hist = << >>
    /\ epoch = 0
    /\ rpc = "idle"
    /\ ep_state = 0
    /\ total_reward = 0
    /\ frames = 0
    /\ return_frames = FALSE
    /\ ep_steps = 0
    /\ evpc = "idle"
    /\ ev_count = 0
    /\ ev_total = 0
    /\ ev_steps = 0
    /\ call = [op |-> "init"]

\* train(num_epochs) about to start its loop.
Init ==
    /\ InitObjects
    /\ trained = q_net
    /\ env_kind \in {"free", "stub"}
    /\ buffer_size \in Sizes(env_kind)
    /\ num_epochs \in 0..MaxEpochs
    /\ batch_size \in 1..buffer_size
    /\ pc = "for"

Next ==
    \/ LoopFor
    \/ LoopFillCall
    \/ LoopFillOuter
    \/ LoopFillInner
    \/ LoopSampleCall
    \/ LoopSampleNext
    \/ LoopTrain
    \/ LoopEvaluate
    \/ LoopLog
    \/ LoopBufferUpdate
    \/ LoopUpdateEpsilon
    \/ LoopAgentUpdate
    \/ LoopGif

Spec == Init /\ [][Next]_vars

---------------------------------------------------------------------------
(* The Agent driven from outside the loop: any sequence of calls *)

\* The number of update_epsilon() calls a run makes at most: in a run of
\* epsilon's calls alone, and in a run of all the Agent's calls.
MaxEpsCalls == 30
MaxMixedEpsCalls == 2

\* The transitions a caller may put in a batch.
Transitions ==
    [state : States, action : Actions, reward : Rewards,
     next_state : States, done : BOOLEAN, epoch : {0}]

\* The frame of a call on the Agent from outside train().
AgentFrame ==
    UNCHANGED <<bufVars, fillVars, envVars, loopVars, trained, epVars>>

\* The caller adds one transition to the batch it is about to train on.
CallStage ==
    /\ Len(batch) < MaxBatch
    /\ \E tr \in Transitions : batch' = Append(batch, tr)
    /\ call' = [op |-> "stage"]
    /\ UNCHANGED agentVars
    /\ AgentFrame

CallTrain ==
    /\ AgentTrain(batch)
    /\ batch' = << >>
    /\ AgentFrame

CallPolicy ==
    /\ batch = << >>
    /\ AgentPolicy
    /\ UNCHANGED batch
    /\ AgentFrame

CallUpdate ==
    /\ batch = << >>
    /\ AgentUpdate
    /\ UNCHANGED batch
    /\ AgentFrame

CallUpdateEpsilon ==
    /\ batch = << >>
    /\ eps_calls < MaxEpsCalls
    /\ AgentUpdateEpsilon
    /\ UNCHANGED batch
    /\ AgentFrame

CallUpdateEpsilonMixed ==
    /\ eps_calls < MaxMixedEpsCalls
    /\ CallUpdateEpsilon

CallEvaluate ==
    /\ batch = << >>
    /\ AgentEvaluate
    /\ UNCHANGED batch
    /\ AgentFrame

\* An Agent and a ReplayBuffer just constructed, no train() running.
InitAgent ==
    /\ InitObjects
    /\ trained = -1
    /\ env_kind = "free"
    /\ buffer_size \in 1..MaxBufferSize
    /\ num_epochs = 0
    /\ batch_size = 1
    /\ pc = "none"

NextAgent ==
    \/ CallStage
    \/ CallTrain
    \/ CallPolicy
    \/ CallUpdate
    \/ CallUpdateEpsilonMixed
    \/ CallEvaluate

SpecAgent == InitAgent /\ [][NextAgent]_vars

\* The calls that read or write epsilon and the target sync, with
\* update_epsilon() called again and again.
NextEps ==
    \/ CallPolicy
    \/ CallUpdate
    \/ CallUpdateEpsilon
    \/ CallEvaluate

SpecEps == InitAgent /\ [][NextEps]_vars /\ WF_vars(CallUpdateEpsilon)

---------------------------------------------------------------------------
(* The ReplayBuffer driven from outside the loop: any sequence of calls *)

BufferFrame ==
    UNCHANGED <<pc, epoch, num_epochs, log, gifs, eval_result, hist, trained,
                epVars>>

CallFill ==
    /\ pc = "none"
    /\ batch_num = -1
    /\ FillCall
    /\ UNCHANGED <<batch, batch_size, batch_num>>
    /\ BufferFrame

StepFillOuter ==
    /\ pc = "none"
    /\ FillOuter
    /\ UNCHANGED <<batch, batch_size, batch_num>>
    /\ BufferFrame

StepFillInner ==
    /\ pc = "none"
    /\ FillInner
    /\ UNCHANGED <<batch, batch_size, batch_num>>
    /\ BufferFrame

CallSample ==
    /\ pc = "none"
    /\ fpc = "idle"
    /\ \E k \in 1..MaxBatch : SampleCall(k)
    /\ UNCHANGED <<agentVars, fillVars, envVars>>
    /\ BufferFrame

StepSampleNext ==
    /\ pc = "none"
    /\ SampleNext
    /\ UNCHANGED <<agentVars, fillVars, envVars>>
    /\ BufferFrame

CallBufferUpdate ==
    /\ pc = "none"
    /\ fpc = "idle"
    /\ batch_num = -1
    /\ BufferUpdate
    /\ UNCHANGED <<batch, batch_size, batch_num, agentVars, fillVars, envVars>>
    /\ BufferFrame

\* A ReplayBuffer just constructed, with an agent and any environment.
InitBuffer ==
    /\ InitObjects
    /\ trained = -1
    /\ env_kind \in EnvKinds
    /\ buffer_size \in Sizes(env_kind)
    /\ num_epochs = 0
    /\ batch_size = 1
    /\ pc = "none"

NextBuffer ==
    \/ CallFill
    \/ StepFillOuter
    \/ StepFillInner
    \/ CallSample
    \/ StepSampleNext
    \/ CallBufferUpdate

SpecBuffer == InitBuffer /\ [][NextBuffer]_vars

\* The same under a scheduler that keeps running a fill_buffer that has been
\* called: its loops take their next step, given that env.reset() and
\* env.step() return.
SpecBufferFair ==
    SpecBuffer /\ WF_vars(StepFillOuter) /\ WF_vars(StepFillInner)

\* A ReplayBuffer just constructed, with an agent and the environment that
\* ends every episode at its first step; fill_buffer and update are called.
InitFill ==
    /\ InitObjects
    /\ trained = -1
    /\ env_kind = "stub"
    /\ buffer_size \in 1..MaxFillSize
    /\ num_epochs = 0
    /\ batch_size = 1
    /\ pc = "none"

NextFill ==
    \/ CallFill
    \/ StepFillOuter
    \/ StepFillInner
    \/ CallBufferUpdate

SpecFill == InitFill /\ [][NextFill]_vars

\* sample_buffer wherever it is called: in the epochs of train(), and by any
\* sequence of calls on a ReplayBuffer.
InitSample == Init \/ InitBuffer

NextSample == Next \/ NextBuffer

SpecSample == InitSample /\ [][NextSample]_vars

---------------------------------------------------------------------------
(* Agent.run_episode and Agent.evaluate, statement by statement *)

\* for _ in range(100) in Agent.evaluate, and its division by 100.
EvalEpisodes == 100

\* The environment's time limit: the step that reaches it reports truncated.
MaxEpisodeSteps == 2

\* What env.step(action) may return at the step after n steps of the episode.
EnvStepLimited(kind, s, a, n) ==
    {o \in EnvStep(kind, s, a) : n + 1 >= MaxEpisodeSteps => o.truncated}

\* total_reward += reward, skipped at the step that ends the episode.
EpisodeTotal_skips_last(total, reward, done) ==
    IF done THEN total ELSE total + reward

\* total_reward += reward
EpisodeTotal(total, reward, done) == total + reward

\* run_episode(env, return_frames): up to the while.
RunEpisodeCall(flag) ==
    /\ rpc = "idle"
    /\ \E s \in EnvReset(env_kind) : ep_state' = s
    /\ total_reward' = 0
    /\ frames' = 0
    /\ return_frames' = flag
    /\ ep_steps' = 0
    /\ rpc' = "loop"
    /\ call' = [op |-> "run_episode"]
    /\ UNCHANGED agentVars

\* One pass of run_episode's while: the policy with train=False, env.step,
\* the reward added, done set, TRUNCATED printed, the frame rendered.
RunEpisodeStep ==
    /\ rpc = "loop"
    /\ \E d \in Draws, r \in Actions :
       LET action == policy(q_net, epsilon, ep_state, FALSE, d, r)
       IN  \E o \in EnvStepLimited(env_kind, ep_state, action, ep_steps) :
           LET done == Done(o.terminated, o.truncated)
           IN  /\ ep_state' = o.next_state
               /\ total_reward' = EpisodeTotal(total_reward, o.reward, done)
               /\ frames' = IF return_frames THEN frames + 1 ELSE frames
               /\ rpc' = IF done THEN "return" ELSE "loop"
               /\ call' = [op |-> "episode_step", from |-> ep_state,
                           action |-> action, reward |-> o.reward,
                           terminated |-> o.terminated,
                           truncated |-> o.truncated,
                           printed |-> IF o.truncated THEN <<"TRUNCATED">>
                                                      ELSE << >>]
    /\ ep_steps' = ep_steps + 1
    /\ UNCHANGED <<return_frames, agentVars>>

\* run_episode's return: the frames, or the total reward.
RunEpisodeReturn ==
    /\ rpc = "return"
    /\ rpc' = "idle"
    /\ call' = [op |-> "run_episode_return", frames |-> return_frames,
                result |-> IF return_frames THEN frames ELSE total_reward]
    /\ UNCHANGED <<ep_state, total_reward, frames, return_frames, ep_steps,
                   agentVars>>

\* evaluate(env): total_reward = 0, before the for.
EvaluateCall ==
    /\ evpc = "idle"
    /\ rpc = "idle"
    /\ evpc' = "loop"
    /\ ev_count' = 0
    /\ ev_total' = 0
    /\ ev_steps' = 0
    /\ call' = [op |-> "evaluate"]
    /\ UNCHANGED <<rpc, ep_state, total_reward, frames, return_frames,
                   ep_steps, agentVars>>

\* evaluate's for: the next run_episode(env) is called, or after the last
\* one total_reward / 100 is returned.  ev_total is total_reward / 100 (every
\* episode total is a whole number of hundreds), so that it is the returned
\* value at the end.
EvaluateFor ==
    /\ evpc = "loop"
    /\ rpc = "idle"
    /\ IF ev_count < EvalEpisodes
       THEN /\ RunEpisodeCall(FALSE)
            /\ UNCHANGED evpc
       ELSE /\ evpc' = "idle"
            /\ call' = [op |-> "evaluate_return", result |-> ev_total]
            /\ UNCHANGED <<rpc, ep_state, total_reward, frames,
                           return_frames, ep_steps, agentVars>>
    /\ UNCHANGED <<ev_count, ev_total, ev_steps>>

\* total_reward += self.run_episode(env): the episode returns to evaluate.
EvaluateAdd ==
    /\ evpc = "loop"
    /\ RunEpisodeReturn
    /\ ev_total' = ev_total + call'.result \div EvalEpisodes
    /\ ev_count' = ev_count + 1
    /\ ev_steps' = ev_steps + ep_steps
    /\ UNCHANGED evpc

\* The frame of a step of run_episode or evaluate.
EpisodeFrame ==
    UNCHANGED <<bufVars, fillVars, envVars, loopVars, trained, batch>>

CallRunEpisode ==
    /\ evpc = "idle"
    /\ \E flag \in BOOLEAN : RunEpisodeCall(flag)
    /\ UNCHANGED <<evpc, ev_count, ev_total, ev_steps>>
    /\ EpisodeFrame

StepRunEpisode ==
    /\ RunEpisodeStep
    /\ UNCHANGED <<evpc, ev_count, ev_total, ev_steps>>
    /\ EpisodeFrame

ReturnRunEpisode ==
    /\ evpc = "idle"
    /\ RunEpisodeReturn
    /\ UNCHANGED <<evpc, ev_count, ev_total, ev_steps>>
    /\ EpisodeFrame

CallEvaluateSteps ==
    /\ EvaluateCall
    /\ EpisodeFrame

StepEvaluateFor ==
    /\ EvaluateFor
    /\ EpisodeFrame

StepEvaluateAdd ==
    /\ EvaluateAdd
    /\ EpisodeFrame

\* An Agent just constructed and an environment with a time limit.
InitEpisode ==
    /\ InitObjects
    /\ trained = -1
    /\ env_kind \in {"free", "stub"}
    /\ buffer_size = 1
    /\ num_epochs = 0
    /\ batch_size = 1
    /\ pc = "none"

NextEpisode ==
    \/ CallRunEpisode
    \/ StepRunEpisode
    \/ ReturnRunEpisode
    \/ CallEvaluateSteps
    \/ StepEvaluateFor
    \/ StepEvaluateAdd

SpecEpisode == InitEpisode /\ [][NextEpisode]_vars

---------------------------------------------------------------------------
(* Properties *)

\* C1: right after ReplayBuffer.update() the container fill_buffer appends to
\* and sample_buffer draws from is empty, and end_factor is 0.9 times what it
\* was.
C1_UpdateEmptiesBuffer ==
    call.op = "rb_update" =>
        /\ Len(buffer) = 0
        /\ end_factor = (9 * call.before) \div 10

\* C2: in every epoch fill_buffer collects buffer_size new transitions, and
\* every batch given to Agent.train holds only transitions collected in the
\* epoch that trains on it.
C2_BatchesAreOfTheirEpoch ==
    /\ pc = "sample_call" => env_steps = buffer_size
    /\ call.op = "train" =>
          \A i \in 1..Len(call.batch) : call.batch[i].epoch = epoch

\* C3: while fill_buffer runs on a buffer that was empty at the call, the
\* buffer is never longer than buffer_size, and at the return its length is
\* buffer_size.
C3_FillToCapacity ==
    fill_from = 0 =>
        /\ Len(buffer) <= buffer_size
        /\ call.op = "fill_buffer_return" => Len(buffer) = buffer_size

C3_Witness ==
    /\ call.op = "fill_buffer_return"
    /\ fill_from = 0
    /\ env_kind = "free"
    /\ Len(buffer) = 2
    /\ ~buffer[1].done
    /\ env_resets = 1

\* C4: the target weights are the online weights of the latest
\* Agent.update(): update() leaves the two equal, and train() leaves the
\* target weights alone.
C4_TargetIsLaggedCopy ==
    /\ [](t_net = synced)
    /\ [](call.op = "update" => t_net = q_net)
    /\ [][call'.op = "train" => t_net' = t_net]_vars

C4_Witness ==
    /\ call.op = "train"
    /\ q_net # t_net
    /\ t_net = synced
    /\ eps_calls > 0

\* C5: the targets Agent.train fits to.  Row i, with T the target network's
\* output on next_state_i: reward_i at the taken action when done_i, reward_i
\* + 0.9 * T[action_i] when not, T elsewhere; the inputs are the states; one
\* pass.
C5_TrainTargets ==
    call.op = "train" =>
        LET b == call.batch
        IN  /\ Len(call.fit_y) = Len(b)
            /\ Len(call.fit_x) = Len(b)
            /\ call.fit_epochs = 1
            /\ \A i \in 1..Len(b) :
                 LET T == Forward(t_net, b[i].next_state)
                 IN  /\ call.fit_x[i] = b[i].state
                     /\ \A c \in Actions :
                          call.fit_y[i][c + 1] =
                             IF c # b[i].action THEN T[c + 1]
                             ELSE IF b[i].done THEN b[i].reward
                             ELSE b[i].reward + (9 * T[c + 1]) \div 10

C5_Witness ==
    /\ call.op = "train"
    /\ Len(call.batch) = 2
    /\ call.batch[1].done
    /\ ~call.batch[2].done
    /\ call.fit_y[1][call.batch[1].action + 1] = Unit
    /\ call.fit_y[2][call.batch[2].action + 1] > Unit
    /\ q_net # t_net

\* C6: epsilon is 1 at the start and 0.9 after one update_epsilon(), no call
\* raises it, and it stays within [0.05, 1].
C6_EpsilonRange ==
    /\ [](/\ eps_calls = 0 => epsilon = 100000000
          /\ eps_calls = 1 => epsilon = 90000000
          /\ 5000000 <= epsilon
          /\ epsilon <= 100000000)
    /\ [][epsilon' <= epsilon]_vars

C6_Witness ==
    /\ call.op = "update_epsilon"
    /\ eps_calls = 2
    /\ epsilon = 81000000

\* C7: update_epsilon() called again and again brings epsilon to 0.05
\* exactly: the call that finds epsilon * 0.9 below 0.05 leaves 0.05, and
\* every later call leaves it there.
C7_EpsilonReachesFloor ==
    /\ <>(epsilon = 5000000)
    /\ [][epsilon = 5000000 => epsilon' = 5000000]_vars
    /\ [][(/\ call'.op = "update_epsilon"
           /\ eps_calls' = eps_calls + 1
           /\ epsilon > 5000000
           /\ (9 * epsilon) \div 10 < 5000000) => epsilon' = 5000000]_vars

C7_Witness ==
    /\ call.op = "update_epsilon"
    /\ call.before = 5000000
    /\ epsilon = 5000000

\* C8: policy(state, train=False) returns the first index of the largest
\* action value of the online network, whatever epsilon and the draws are, so
\* two such calls on the same weights and state agree; an action that is not
\* that one comes only from a call with train=True whose draw is below
\* epsilon, and is its random action.
C8_GreedyWhenNotTraining ==
    /\ [](call.op = "policy" =>
            LET v == Forward(q_net, call.state)
                greedy == IF v[1] >= v[2] THEN 0 ELSE 1
            IN  /\ call.action \in {0, 1}
                /\ ~call.train => call.action = greedy
                /\ call.action # greedy =>
                      /\ call.train
                      /\ call.draw < epsilon
                      /\ call.action = call.randint)
    /\ [][(/\ call.op = "policy" /\ call'.op = "policy"
           /\ ~call.train /\ ~call'.train
           /\ call.state = call'.state
           /\ q_net' = q_net) => call'.action = call.action]_vars

C8_Witness ==
    /\ call.op = "policy"
    /\ ~call.train
    /\ call.draw < epsilon
    /\ call.randint # call.action
    /\ Forward(q_net, call.state)[1] = Forward(q_net, call.state)[2]

\* C9: with batch_size <= buffer_size, a batch sample_buffer yields has
\* batch_size elements, taken from batch_size different positions of the
\* buffer; the generator leaves the buffer as it is.
C9_SampleWithoutReplacement ==
    /\ [](call.op = "sample" /\ batch_size <= buffer_size =>
            /\ Len(batch) = batch_size
            /\ Len(call.positions) = batch_size
            /\ \A i \in 1..batch_size :
                  /\ call.positions[i] \in 1..Len(buffer)
                  /\ batch[i] = buffer[call.positions[i]]
            /\ \A i, j \in 1..batch_size :
                  i # j => call.positions[i] # call.positions[j])
    /\ [][call'.op \in {"sample_buffer", "sample", "sample_exhausted",
                        "sample_error"} => buffer' = buffer]_vars

C9_Witness ==
    /\ call.op = "sample"
    /\ batch_size = 2
    /\ call.positions = <<2, 1>>
    /\ batch[1] # batch[2]

\* The operations of one epoch so far are a start of: fill, one train per
\* batch, evaluate, log, ReplayBuffer.update, update_epsilon, Agent.update.
EpochOrder(h) ==
    LET tail == <<"evaluate", "log", "rb_update", "update_epsilon",
                  "agent_update">>
        n == Cardinality({i \in 1..Len(h) : h[i] = "train"})
    IN  /\ Len(h) > 0 => h[1] = "fill"
        /\ \A i \in 2..Len(h) :
              IF i <= n + 1 THEN h[i] = "train" ELSE h[i] = tail[i - n - 1]
        /\ Len(h) <= n + 6
        /\ Len(h) > n + 1 => n >= 1

\* C10: train(num_epochs) runs num_epochs epochs and stops; each epoch does
\* fill, the trains, evaluate, log, ReplayBuffer.update, update_epsilon,
\* Agent.update in this order; the log gets one row per epoch, numbered from
\* 0 upwards, written after the evaluation and before the decay and the sync.
C10_EpochsInOrder ==
    /\ epoch <= num_epochs
    /\ pc = "done" => epoch = num_epochs /\ Len(log) = num_epochs
    /\ pc # "error"
    /\ EpochOrder(hist)
    /\ pc = "gif" => Len(hist) >= 7 /\ hist[Len(hist)] = "agent_update"
    /\ \A i \in 1..Len(log) : log[i][1] = i - 1
    /\ Len(log) = epoch + (IF \E i \in 1..Len(hist) : hist[i] = "log"
                           THEN 1 ELSE 0)
    /\ pc = "log" => eval_result = call.result /\ call.op = "evaluate"

C10_Witness ==
    /\ pc = "done"
    /\ num_epochs = 2
    /\ Len(log) = 2
    /\ log[2][1] = 1

\* C11: with the environment that ends every episode at its first step with
\* the fixed reward 1.0, a fill_buffer on an empty buffer of size N returns
\* with exactly N transitions, each with done true and reward 1.0, after
\* exactly N env.reset() calls and N env.step() calls.
C11_StubFill ==
    (env_kind = "stub" /\ fill_from = 0 /\ call.op = "fill_buffer_return")
        => /\ Len(buffer) = buffer_size
           /\ env_resets = buffer_size
           /\ env_steps = buffer_size
           /\ \A i \in 1..Len(buffer) :
                  buffer[i].done /\ buffer[i].reward = Unit

C11_Witness ==
    /\ env_kind = "stub" /\ fill_from = 0 /\ call.op = "fill_buffer_return"
    /\ buffer_size = 10 /\ Len(buffer) = 10 /\ env_resets = 10

\* C12: run_episode steps the environment with the greedy action of the
\* online network, whatever the draw, and goes on exactly until the first
\* step that reports terminated or truncated; a truncated step ends the
\* episode like a terminated one (TRUNCATED is printed, nothing is raised);
\* the total returned is the sum of the rewards of all the steps taken, the
\* last one included; evaluate returns the mean of exactly 100 such totals
\* and leaves the agent as it was.
C12_RunEpisode ==
    /\ call.op = "episode_step" =>
          /\ call.action = argmax(Forward(q_net, call.from))
          /\ (rpc = "return") = (call.terminated \/ call.truncated)
          /\ (rpc = "loop") = ~(call.terminated \/ call.truncated)
          /\ (call.printed = <<"TRUNCATED">>) = call.truncated
    /\ rpc \in {"loop", "return"} => total_reward = ep_steps * Unit
    /\ rpc = "return" => ep_steps >= 1
    /\ call.op = "run_episode_return" =>
          /\ rpc = "idle"
          /\ ~call.frames => call.result = ep_steps * Unit
          /\ call.frames => call.result = ep_steps
    /\ call.op = "evaluate_return" =>
          /\ ev_count = 100
          /\ call.result = ev_steps * (Unit \div 100)
    /\ evpc = "loop" => ev_count <= 100
    /\ epsilon = Unit /\ t_net = q_net /\ synced = q_net

C12_Witness ==
    /\ call.op = "episode_step"
    /\ call.truncated /\ ~call.terminated
    /\ rpc = "return"
    /\ ep_steps = 2 /\ total_reward = 2 * Unit
    /\ evpc = "loop" /\ ev_count = 99 /\ ev_steps = 150

\* C13: train() calls save_gif at the end of exactly the epochs whose 1-based
\* number is even, after the target sync of that epoch: after e epochs there
\* are floor(e / 2) files, floor(num_epochs / 2) at the end, and the i-th is
\* named episode, the 0-based index 2i - 1 of its epoch on three digits, .gif.
C13_GifEveryTwoEpochs ==
    /\ Len(gifs) = epoch \div 2
    /\ pc = "done" => Len(gifs) = num_epochs \div 2
    /\ \A i \in 1..Len(gifs) :
          gifs[i] = [prefix |-> "episode", digits |-> <<0, 0, 2 * i - 1>>,
                     suffix |-> ".gif"]
    /\ call.op = "gif" => call.saved = (epoch % 2 = 0)
    /\ pc = "gif" =>
          /\ hist[Len(hist)] = "agent_update"
          /\ t_net = q_net

C13_Witness ==
    /\ pc = "done"
    /\ num_epochs = 3
    /\ gifs = << [prefix |-> "episode", digits |-> <<0, 0, 1>>,
                  suffix |-> ".gif"] >>

\* The number of entries of h equal to x.
Count(h, x) == Cardinality({i \in 1..Len(h) : h[i] = x})

\* C14: in train() the target network changes only at the Agent.update() of
\* an epoch, once per epoch, after the epoch's trains, its evaluation and its
\* log row; so from the start of an epoch to its last train the target
\* weights are the online weights at the end of the previous epoch's training
\* (the constructed weights in epoch 0), and every train of the epoch computes
\* its targets from them.
C14_TargetSyncedOncePerEpoch ==
    /\ [](/\ pc \in {"for", "fill", "filling", "sample_call", "sample_next",
                     "train", "done"} => t_net = trained
          /\ (pc = "train" \/ call.op = "train") => t_net = trained
          /\ call.op = "train" => call.fit_y = Truth(trained, call.batch)
          /\ Count(hist, "agent_update") <= 1
          /\ pc = "gif" => Count(hist, "agent_update") = 1
          /\ \A i \in 1..Len(hist) :
                hist[i] = "agent_update" =>
                   /\ i = Len(hist)
                   /\ Count(hist, "train") >= 1
                   /\ \E j \in 1..(i - 1) : hist[j] = "evaluate"
                   /\ \E j \in 1..(i - 1) : hist[j] = "log"
                   /\ \A j \in 1..Len(hist) : hist[j] = "train" => j < i)
    /\ [][t_net' # t_net =>
             pc = "agent_update" /\ t_net' = q_net /\ q_net = trained]_vars

C14_Witness ==
    /\ call.op = "train"
    /\ epoch = 1
    /\ Count(hist, "train") = 2
    /\ q_net # t_net
    /\ t_net = trained

\* C15: in fill_buffer, after a stored step the episode is left exactly when
\* the step was done, or the draw of that step is below end_factor, or the
\* buffer has buffer_size transitions, and goes on otherwise; env.reset() is
\* called exactly at the start of an episode (after the call or after a left
\* episode, while the buffer is short), and is followed by a stored step; the
\* first transition of an episode starts from the observation of the reset
\* and each later one from the next_state of the one stored before it.
C15_EpisodeBreaks ==
    /\ [](/\ call.op = "store_experience" =>
               /\ call.broke = (\/ call.stored.done
                                \/ call.drew < end_factor
                                \/ Len(buffer) >= buffer_size)
               /\ (fpc = "outer") = call.broke
               /\ (fpc = "inner") = ~call.broke
               /\ call.stored = buffer[Len(buffer)]
               /\ call.stored.state = call.from
          /\ call.op = "reset" => fpc = "inner" /\ state = call.obs)
    /\ [][env_resets' = env_resets + 1 =>
             /\ fpc = "outer" /\ Len(buffer) < buffer_size
             /\ call'.op = "reset"
             /\ \/ call.op = "fill_buffer"
                \/ call.op = "store_experience" /\ call.broke]_vars
    /\ [][env_steps' = env_steps + 1 =>
             /\ call'.op = "store_experience"
             /\ IF call.op = "reset"
                THEN call'.stored.state = call.obs
                ELSE /\ call.op = "store_experience"
                     /\ ~call.broke
                     /\ call'.stored.state = call.stored.next_state]_vars

C15_Witness ==
    /\ call.op = "store_experience"
    /\ Len(buffer) = 2 /\ buffer_size = 2
    /\ env_resets = 1 /\ env_steps = 2
    /\ ~buffer[1].done /\ buffer[1].next_state = 1 /\ buffer[2].state = 1
    /\ ~call.stored.done /\ call.broke /\ fpc = "outer"

\* The least n with n * b >= a.
CeilDiv(a, b) == CHOOSE n \in 0..a : n * b >= a /\ (n - 1) * b < a

\* What C16 says of a state.  The generator's position batch_num is
\* batch_size times the number of batches it has yielded.
BatchCountState(mayRaise) ==
    /\ call.op = "sample" =>
          /\ Len(batch) = batch_size
          /\ batch_num % batch_size = 0
          /\ batch_num <= batch_size * CeilDiv(buffer_size, batch_size)
    /\ call.op = "sample_error" => mayRaise /\ batch_size > Len(buffer)
    /\ pc = "evaluate" =>
          Count(hist, "train") = CeilDiv(buffer_size, batch_size)

\* What C16 says of the step that exhausts the generator.
BatchCountStep ==
    (call'.op = "sample_exhausted" /\ batch_num >= 0)
        => batch_num = batch_size * CeilDiv(buffer_size, batch_size)

\* C16: a sample_buffer(batch_size) on a buffer that holds at least
\* batch_size transitions yields exactly ceil(buffer_size / batch_size)
\* batches, by the configured buffer_size, each of batch_size transitions,
\* also when batch_size does not divide buffer_size; on a shorter buffer its
\* first request raises ValueError.  Every epoch of train() calls Agent.train
\* exactly ceil(buffer_size / batch_size) times.
C16_BatchCount ==
    /\ [](BatchCountState(TRUE))
    /\ [][BatchCountStep]_vars

\* C16 as stated: every sample_buffer(batch_size) yields exactly
\* ceil(buffer_size / batch_size) batches of batch_size transitions.
C16_BatchCountAlways ==
    /\ [](BatchCountState(FALSE))
    /\ [][BatchCountStep]_vars

C16_Witness ==
    /\ pc = "evaluate"
    /\ buffer_size = 3 /\ batch_size = 2
    /\ call.op = "sample_exhausted"
    /\ Count(hist, "train") = 2

\* C17: end_factor is 0 in every reachable state, before and after every
\* ReplayBuffer.update(); no draw of fill_buffer is below it, so an episode
\* of fill_buffer is left only on done or on a full buffer.
C17_EndFactorZero ==
    /\ end_factor = 0
    /\ call.op = "rb_update" => call.before = 0
    /\ call.op = "store_experience" =>
          /\ ~(call.drew < end_factor)
          /\ call.broke = (call.stored.done \/ Len(buffer) >= buffer_size)

C17_Witness ==
    /\ replay_buffer # "unset"
    /\ call.op = "store_experience"
    /\ call.drew = 0
    /\ ~call.broke
    /\ end_factor = 0

\* C18: a fill_buffer that has been called returns, whatever the environment
\* answers, also when no step ever reports terminated or truncated; every
\* pass of its inner loop appends exactly one transition, so that a call on
\* a buffer of length L <= buffer_size makes at most buffer_size - L
\* env.step() calls on the way and exactly buffer_size - L by its return.
C18_FillTerminates ==
    /\ (fpc # "idle") ~> (fpc = "idle")
    /\ [](fill_from <= buffer_size =>
             /\ fpc # "idle" =>
                   /\ Len(buffer) = fill_from + env_steps
                   /\ env_steps <= buffer_size - fill_from
             /\ call.op = "fill_buffer_return" =>
                   /\ env_steps = buffer_size - fill_from
                   /\ Len(buffer) = buffer_size)
    /\ [][env_steps' = env_steps + 1 =>
             buffer' = Append(buffer, call'.stored)]_vars

C18_Witness ==
    /\ env_kind = "endless"
    /\ call.op = "fill_buffer_return"
    /\ fill_from = 0 /\ buffer_size = 2
    /\ env_steps = 2 /\ env_resets = 1
    /\ \A i \in 1..Len(buffer) : ~buffer[i].done

\* C19: from the call to the return of a fill_buffer called on a buffer that
\* already holds buffer_size transitions or more, no step resets or steps
\* the environment, stores an experience (the only caller of the policy in
\* fill_buffer) or changes the buffer or the local state: the call is
\* followed at once by the return.
C19_FillOfFullBufferIsNoOp ==
    /\ []((fill_from >= buffer_size
              /\ (fpc # "idle" \/ call.op = "fill_buffer_return")) =>
             /\ env_resets = 0
             /\ env_steps = 0
             /\ fpc \in {"outer", "idle"}
             /\ call.op \in {"fill_buffer", "fill_buffer_return"})
    /\ [][(fill_from' >= buffer_size /\ (fpc # "idle" \/ fpc' # "idle")) =>
             /\ buffer' = buffer
             /\ state' = state
             /\ call'.op \in {"fill_buffer", "fill_buffer_return"}
             /\ UNCHANGED agentVars]_vars

C19_Witness ==
    /\ pc = "sample_call"
    /\ epoch = 1
    /\ call.op = "fill_buffer_return"
    /\ fill_from = 2 /\ buffer_size = 2 /\ Len(buffer) = 2
    /\ env_resets = 0 /\ env_steps = 0

=============================================================================
